---- MODULE Spec2Model ----
(***************************************************************************)
(* Model of geoio.base.GeoImage: the windowed read get_data (window        *)
(* resolution, clipping, read, masking, padding), _extent_to_window, the   *)
(* affine transform, and the generator-based iterators built on get_data.  *)
(***************************************************************************)
EXTENDS Integers, Sequences, FiniteSets, TLC

VARIABLES
    files,      \* self.files: dfile (the opened raster) and dfile_tiles (the components)
    meta,       \* self.meta: shape (bands, x, y), geo_transform, resolution
    pc,         \* position of the caller: "idle", "returned", or inside a generator
    call,       \* the arguments of the get_data call in progress / just returned
    ret,        \* what that get_data call returned or raised
    gen,        \* the frame of the running generator (iter_window, ...)
    fobj,       \* self._fobj: the mode the raster handle is open in, and the
                \* bands written to the file through it
    attrs       \* the names of the attributes the image object has

vars == <<files, meta, pc, call, ret, gen, fobj, attrs>>

(***************************************************************************)
(* Bounds of the model.                                                    *)
(***************************************************************************)
MinDim == 2
MaxDim == 3
NumBands == 2
MaxOver == 1
MaxWin == 2
MaxGeom == 2
MaxBuffer == 1
MaxStride == 3
MaxTile == 3
MaxChips == 2
MaxExtraChips == 2
MaxFeatures == 2
MaxCoef == 2

(***************************************************************************)
(* Small helpers.                                                          *)
(***************************************************************************)
Abs(n) == IF n < 0 THEN -n ELSE n

\* Rationals n/d with d > 0, for the true divisions of the affine transform.
Rat(n, d) == IF d < 0 THEN [n |-> -n, d |-> -d] ELSE [n |-> n, d |-> d]

RatLeq(a, b) == a.n * b.d <= b.n * a.d

RatMin(a, b) == IF RatLeq(a, b) THEN a ELSE b

RatMax(a, b) == IF RatLeq(a, b) THEN b ELSE a

\* math.floor and math.ceil
Floor(r) == r.n \div r.d

Ceil(r) == -((-r.n) \div r.d)

(***************************************************************************)
(* The raster decoder (gdal), as far as get_data uses it.                  *)
(* A raster object is [RasterCount, RasterXSize, RasterYSize, seed]; seed  *)
(* fixes the pixel values of the file.                                     *)
(***************************************************************************)
PixelValue(obj, b, x, y) ==
    IF (x + y + obj.seed) % 3 = 2 THEN 0 ELSE 100 * b + 10 * y + x + 1

Raster(nb, xs, ys, seed) ==
    [RasterCount |-> nb, RasterXSize |-> xs, RasterYSize |-> ys, seed |-> seed]

\* numpy arrays: a shape and the elements, a[band][row][col], 1-based here.
Array(zt, rows, cols, a) == [shape |-> <<zt, rows, cols>>, a |-> a]

EmptyArray == Array(0, 0, 0, <<>>)

\* bobj.ReadAsArray(xoff, yoff, win_xsize, win_ysize) can be served: the band
\* exists, the sizes are not negative and the window lies inside the raster.
\* A window with a zero size is served or refused as the decoder decides (zeroOk).
ReadOk(obj, b, xoff, yoff, xsize, ysize, zeroOk) ==
    /\ b \in 1..obj.RasterCount
    /\ xsize >= 0 /\ ysize >= 0
    /\ (xsize = 0 \/ ysize = 0) => zeroOk
    /\ (xsize > 0 /\ ysize > 0) =>
          /\ xoff >= 0 /\ yoff >= 0
          /\ xoff + xsize <= obj.RasterXSize
          /\ yoff + ysize <= obj.RasterYSize

\* np.pad(arr, ((0,0),(top,bottom),(left,right)), 'constant', constant_values=cv)
Pad(arr, top, bottom, left, right, cv) ==
    Array(arr.shape[1], top + arr.shape[2] + bottom, left + arr.shape[3] + right,
          [b \in 1..arr.shape[1] |->
              [r \in 1..(top + arr.shape[2] + bottom) |->
                  [c \in 1..(left + arr.shape[3] + right) |->
                      IF /\ r > top /\ r <= top + arr.shape[2]
                         /\ c > left /\ c <= left + arr.shape[3]
                      THEN arr.a[b][r - top][c - left]
                      ELSE cv]]])

(***************************************************************************)
(* Affine transform.  gm is the 6-tuple of the geo transform; gm[i+1] here *)
(* is gm[i] in the source.                                                 *)
(***************************************************************************)
\* proj_to_raster for one point: the raster x and y as rationals.
proj_to_raster(gm, projx, projy) ==
    LET xn == gm[6] * (projx - gm[1]) - gm[3] * (projy - gm[4])
        xd == gm[6] * gm[2] + gm[5] * gm[3]
        yn == (projy - gm[4]) * xd - xn * gm[5]
        yd == gm[6] * xd
    IN <<Rat(xn, xd), Rat(yn, yd)>>

\* raster_to_proj for one point with integer raster coordinates.
raster_to_proj(gm, x, y) ==
    <<gm[1] + gm[2] * x + gm[3] * y, gm[4] + gm[5] * x + gm[6] * y>>

(***************************************************************************)
(* GeoImage._extent_to_window without a coordinate transformation, as      *)
(* get_data calls it.  extent is (minX, maxX, minY, maxY).                 *)
(***************************************************************************)
\* Variant of ExtentNoOverlap that also rejects an envelope hanging over the
\* right or bottom edge (xoff + win_xsize compared with the raster size).
ExtentNoOverlapOverhang(shape, xoff, yoff, win_xsize, win_ysize) ==
    \/ xoff + win_xsize <= 0
    \/ yoff + win_ysize <= 0
    \/ xoff + win_xsize > shape[2]
    \/ yoff + win_ysize > shape[3]

\* The condition under which _extent_to_window raises OverlapError.
ExtentNoOverlap(shape, xoff, yoff, win_xsize, win_ysize) ==
    \/ xoff + win_xsize <= 0
    \/ yoff + win_ysize <= 0
    \/ xoff > shape[2]
    \/ yoff > shape[3]

extent_to_window(m, extent) ==
    LET minX == extent[1]
        maxX == extent[2]
        minY == extent[3]
        maxY == extent[4]
        ul == proj_to_raster(m.geo_transform, minX, maxY)
        lr == proj_to_raster(m.geo_transform, maxX, minY)
        xoff == Floor(RatMin(ul[1], lr[1]))
        yoff == Floor(RatMin(ul[2], lr[2]))
        xmax == Ceil(RatMax(ul[1], lr[1]))
        ymax == Ceil(RatMax(ul[2], lr[2]))
        win_xsize == xmax - xoff
        win_ysize == ymax - yoff
    IN [raised |-> ExtentNoOverlap(m.shape, xoff, yoff, win_xsize, win_ysize),
        window |-> <<xoff, yoff, win_xsize, win_ysize>>]

(***************************************************************************)
(* gdal.RasterizeLayer of the geometry onto the temporary raster whose     *)
(* geo transform is (xmin_corner, xres, 0, ymax_corner, 0, -yres).  The    *)
(* geometry is the rectangle of its envelope; a pixel is burned when its   *)
(* centre is inside, or, with ALL_TOUCHED, when the geometry touches it.   *)
(* r and c are the 0-based row and column of the temporary raster.         *)
(***************************************************************************)
Burned(env, xmin_corner, ymax_corner, xres, yres, r, c, all_touched) ==
    LET px0 == xmin_corner + c * xres
        px1 == px0 + xres
        py1 == ymax_corner - r * yres
        py0 == py1 - yres
    IN IF all_touched
       THEN /\ px0 <= env[2] /\ env[1] < px1
            /\ py0 <= env[4] /\ env[3] < py1
       ELSE /\ 2 * env[1] <= px0 + px1 /\ px0 + px1 < 2 * env[2]
            /\ 2 * env[3] < py0 + py1 /\ py0 + py1 <= 2 * env[4]

(***************************************************************************)
(* GeoImage.get_data.  None / empty arguments are the empty sequence:      *)
(* component is <<>> or <<c>>, bands a sequence of band numbers, window    *)
(* and geom <<>> or a 4-tuple, buffer <<>> or a sequence of 1 or 2 ints.   *)
(* zeroOk is the decoder's answer to a read of a zero-sized window.        *)
(***************************************************************************)
Raised(status) ==
    [status |-> status, data |-> EmptyArray, mask |-> EmptyArray,
     masked |-> FALSE, read |-> <<0, 0, 0, 0>>, pads |-> <<0, 0, 0, 0>>,
     location |-> <<>>, obj |-> Raster(0, 0, 0, 0), bands |-> <<>>]

\* Lines 895-908: the raster object read from.  err is the exception raised.
SelectObject(f, component) ==
    IF component = <<>>
    THEN [err |-> "", obj |-> f.dfile]
    ELSE LET c == component[1]
             n == Len(f.dfile_tiles)
             idx == c - 1
         IN IF c = 0 \/ c > n
            THEN [err |-> "ValueError", obj |-> f.dfile]
            ELSE IF idx >= 0
                 THEN [err |-> "", obj |-> f.dfile_tiles[idx + 1]]
                 ELSE IF -idx <= n
                      THEN [err |-> "", obj |-> f.dfile_tiles[n + idx + 1]]
                      ELSE [err |-> "IndexError", obj |-> f.dfile]

\* Lines 910-912
SelectBands(obj, bands) ==
    IF bands = <<>> THEN [i \in 1..obj.RasterCount |-> i] ELSE bands

\* Lines 914-939: the requested window before the buffer.
SelectWindow(m, window, geom) ==
    IF window # <<>> /\ geom # <<>>
    THEN [err |-> "ValueError", w |-> <<0, 0, 0, 0>>]
    ELSE IF window # <<>>
         THEN IF Len(window) = 4
              THEN [err |-> "", w |-> window]
              ELSE [err |-> "ValueError", w |-> <<0, 0, 0, 0>>]
         ELSE IF geom # <<>>
              THEN LET e == extent_to_window(m, geom)
                   IN IF e.raised
                      THEN [err |-> "OverlapError", w |-> e.window]
                      ELSE [err |-> "", w |-> e.window]
              ELSE [err |-> "", w |-> <<0, 0, m.shape[2], m.shape[3]>>]

\* Lines 941-959: the buffer added on every side.
AddBuffer(w, buffer) ==
    IF buffer = <<>>
    THEN [err |-> "", w |-> w]
    ELSE IF Len(buffer) > 2
         THEN [err |-> "ValueError", w |-> w]
         ELSE LET xbuff == buffer[1]
                  ybuff == IF Len(buffer) = 1 THEN buffer[1] ELSE buffer[2]
              IN [err |-> "",
                  w |-> <<w[1] - xbuff, w[2] - ybuff,
                          w[3] + 2 * xbuff, w[4] + 2 * ybuff>>]

\* Variant of ClipWindow that records np_xoff_buff / np_yoff_buff but leaves
\* win_xsize / win_ysize as requested when the offset is negative.
ClipWindowNoShrink(m, w) ==
    LET np_xoff_buff == IF w[1] < 0 THEN w[1] ELSE 0
        xoff == IF w[1] < 0 THEN 0 ELSE w[1]
        np_yoff_buff == IF w[2] < 0 THEN w[2] ELSE 0
        yoff == IF w[2] < 0 THEN 0 ELSE w[2]
        xpos == xoff + w[3]
        ypos == yoff + w[4]
        np_xlim_buff == IF xpos > m.shape[2] THEN xpos - m.shape[2] ELSE 0
        np_ylim_buff == IF ypos > m.shape[3] THEN ypos - m.shape[3] ELSE 0
    IN [xoff |-> xoff, yoff |-> yoff,
        win_xsize |-> w[3] - np_xlim_buff,
        win_ysize |-> w[4] - np_ylim_buff,
        np_xoff_buff |-> np_xoff_buff, np_xlim_buff |-> np_xlim_buff,
        np_yoff_buff |-> np_yoff_buff, np_ylim_buff |-> np_ylim_buff]

\* Variant of ClipWindow that takes the x limit from shape[2] of the source
\* (the height) and the y limit from shape[1] (the width).
ClipWindowSwappedLimits(m, w) ==
    LET np_xoff_buff == IF w[1] < 0 THEN w[1] ELSE 0
        xsize1 == IF w[1] < 0 THEN w[3] + w[1] ELSE w[3]
        xoff == IF w[1] < 0 THEN 0 ELSE w[1]
        np_yoff_buff == IF w[2] < 0 THEN w[2] ELSE 0
        ysize1 == IF w[2] < 0 THEN w[4] + w[2] ELSE w[4]
        yoff == IF w[2] < 0 THEN 0 ELSE w[2]
        xpos == xoff + xsize1
        ypos == yoff + ysize1
        np_xlim_buff == IF xpos > m.shape[3] THEN xpos - m.shape[3] ELSE 0
        np_ylim_buff == IF ypos > m.shape[2] THEN ypos - m.shape[2] ELSE 0
    IN [xoff |-> xoff, yoff |-> yoff,
        win_xsize |-> xsize1 - np_xlim_buff,
        win_ysize |-> ysize1 - np_ylim_buff,
        np_xoff_buff |-> np_xoff_buff, np_xlim_buff |-> np_xlim_buff,
        np_yoff_buff |-> np_yoff_buff, np_ylim_buff |-> np_ylim_buff]

\* Lines 961-989: the window clipped to the raster limits, and the clipped
\* amounts np_xoff_buff, np_xlim_buff, np_yoff_buff, np_ylim_buff.
ClipWindow(m, w) ==
    LET np_xoff_buff == IF w[1] < 0 THEN w[1] ELSE 0
        xsize1 == IF w[1] < 0 THEN w[3] + w[1] ELSE w[3]
        xoff == IF w[1] < 0 THEN 0 ELSE w[1]
        np_yoff_buff == IF w[2] < 0 THEN w[2] ELSE 0
        ysize1 == IF w[2] < 0 THEN w[4] + w[2] ELSE w[4]
        yoff == IF w[2] < 0 THEN 0 ELSE w[2]
        xpos == xoff + xsize1
        xlim == m.shape[2]
        ypos == yoff + ysize1
        ylim == m.shape[3]
        np_xlim_buff == IF xpos > xlim THEN xpos - xlim ELSE 0
        np_ylim_buff == IF ypos > ylim THEN ypos - ylim ELSE 0
    IN [xoff |-> xoff, yoff |-> yoff,
        win_xsize |-> xsize1 - np_xlim_buff,
        win_ysize |-> ysize1 - np_ylim_buff,
        np_xoff_buff |-> np_xoff_buff, np_xlim_buff |-> np_xlim_buff,
        np_yoff_buff |-> np_yoff_buff, np_ylim_buff |-> np_ylim_buff]

\* Lines 1003-1021: all requested bands can be read.
ReadAllOk(obj, bands, k, zeroOk) ==
    \A i \in DOMAIN bands :
        ReadOk(obj, bands[i], k.xoff, k.yoff, k.win_xsize, k.win_ysize, zeroOk)

\* Variant of ReadBands that fills plane i with band i of the file, whatever
\* band was requested in that place.
ReadBandsAscending(obj, bands, k) ==
    Array(Len(bands), k.win_ysize, k.win_xsize,
          [i \in 1..Len(bands) |->
              [r \in 1..k.win_ysize |->
                  [c \in 1..k.win_xsize |->
                      PixelValue(obj, i, k.xoff + c - 1, k.yoff + r - 1)]]])

ReadBands(obj, bands, k) ==
    Array(Len(bands), k.win_ysize, k.win_xsize,
          [i \in 1..Len(bands) |->
              [r \in 1..k.win_ysize |->
                  [c \in 1..k.win_xsize |->
                      PixelValue(obj, bands[i], k.xoff + c - 1, k.yoff + r - 1)]]])

\* Lines 1026-1034: the raster pixel the temporary burn raster starts at.
BurnOrigin(m, geom) ==
    LET ul_raster == proj_to_raster(m.geo_transform, geom[1], geom[4])
    IN <<Floor(ul_raster[1]), Floor(ul_raster[2])>>

\* Lines 1026-1063: the mask of a geometry, True where the element is excluded.
GeomMask(m, geom, data, k, all_touched) ==
    LET ul_corner == BurnOrigin(m, geom)
        corner == raster_to_proj(m.geo_transform, ul_corner[1], ul_corner[2])
    IN Array(data.shape[1], k.win_ysize, k.win_xsize,
             [b \in 1..data.shape[1] |->
                 [r \in 1..k.win_ysize |->
                     [c \in 1..k.win_xsize |->
                         ~Burned(geom, corner[1], corner[2], m.resolution[1],
                                 m.resolution[2], r - 1, c - 1, all_touched)]]])

\* Variant of NonzeroMask that excludes nothing that was read (the line
\* the source keeps as a comment).
NonzeroMaskNothing(data) ==
    Array(data.shape[1], data.shape[2], data.shape[3],
          [b \in 1..data.shape[1] |->
              [r \in 1..data.shape[2] |->
                  [c \in 1..data.shape[3] |-> FALSE]]])

\* Lines 1065-1068: the mask of the zero elements.
NonzeroMask(data) ==
    Array(data.shape[1], data.shape[2], data.shape[3],
          [b \in 1..data.shape[1] |->
              [r \in 1..data.shape[2] |->
                  [c \in 1..data.shape[3] |-> data.a[b][r][c] = 0]]])

\* Variant of PadTuples with the before / after widths of each axis swapped.
PadTuplesSwapped(k) ==
    <<Abs(k.np_ylim_buff), Abs(k.np_yoff_buff),
      Abs(k.np_xlim_buff), Abs(k.np_xoff_buff)>>

\* Lines 1072-1075
PadTuples(k) ==
    <<Abs(k.np_yoff_buff), Abs(k.np_ylim_buff),
      Abs(k.np_xoff_buff), Abs(k.np_xlim_buff)>>

\* Lines 1072-1081: the padded data and, when masking, the padded mask.
PadData(data, p) == Pad(data, p[1], p[2], p[3], p[4], 0)

\* Variant of PadMask that pads the mask with 0 (not excluded), like the data.
PadMaskZero(msk, p) == Pad(msk, p[1], p[2], p[3], p[4], FALSE)

PadMask(msk, p) == Pad(msk, p[1], p[2], p[3], p[4], TRUE)

\* Lines 1072-1094: the padded block that get_data returns.
GetDataResult(obj, bnds, k, raw, m, geom, mask, mask_all_touched) ==
    [status |-> "ok",
     data |-> PadData(raw, PadTuples(k)),
     mask |-> IF mask
              THEN PadMask(IF geom # <<>>
                           THEN GeomMask(m, geom, raw, k, mask_all_touched)
                           ELSE NonzeroMask(raw),
                           PadTuples(k))
              ELSE EmptyArray,
     masked |-> mask,
     read |-> <<k.xoff, k.yoff, k.win_xsize, k.win_ysize>>,
     pads |-> <<Abs(k.np_xoff_buff), Abs(k.np_xlim_buff),
                Abs(k.np_yoff_buff), Abs(k.np_ylim_buff)>>,
     location |-> <<k.xoff, k.yoff>>,
     obj |-> obj,
     bands |-> bnds]

\* Lines 999-1063: the read of the clipped window k and the temporary burn
\* raster, which the decoder refuses to create with a size below 1.
GetDataClipped(obj, bnds, k, m, geom, mask, mask_all_touched, zeroOk) ==
    IF ~ReadAllOk(obj, bnds, k, zeroOk)
    THEN Raised("ReadFailure")
    ELSE IF mask /\ geom # <<>> /\ (k.win_xsize < 1 \/ k.win_ysize < 1)
         THEN Raised("ReadFailure")
         ELSE GetDataResult(obj, bnds, k, ReadBands(obj, bnds, k), m, geom,
                            mask, mask_all_touched)

\* Lines 941-989, bw the outcome of AddBuffer.
GetDataBuffered(obj, bnds, bw, m, geom, mask, mask_all_touched, zeroOk) ==
    IF bw.err # ""
    THEN Raised(bw.err)
    ELSE GetDataClipped(obj, bnds, ClipWindow(m, bw.w), m, geom, mask,
                        mask_all_touched, zeroOk)

\* Lines 914-959, sw the outcome of SelectWindow.
GetDataWindowed(obj, bnds, sw, m, buffer, geom, mask, mask_all_touched, zeroOk) ==
    IF sw.err # ""
    THEN Raised(sw.err)
    ELSE GetDataBuffered(obj, bnds, AddBuffer(sw.w, buffer), m, geom, mask,
                         mask_all_touched, zeroOk)

\* Lines 895-939, o the outcome of SelectObject.
GetDataFrom(o, m, bands, window, buffer, geom, mask, mask_all_touched, zeroOk) ==
    IF o.err # ""
    THEN Raised(o.err)
    ELSE GetDataWindowed(o.obj, SelectBands(o.obj, bands),
                         SelectWindow(m, window, geom), m, buffer, geom, mask,
                         mask_all_touched, zeroOk)

get_data(f, m, component, bands, window, buffer, geom, mask, mask_all_touched, zeroOk) ==
    GetDataFrom(SelectObject(f, component), m, bands, window, buffer, geom,
                mask, mask_all_touched, zeroOk)

(***************************************************************************)
(* The image object after construction (__init__, read_geo_file_info).     *)
(***************************************************************************)
\* The geo transform of the files: origin (4, 6), north up, pixels of 2 x 2
\* projected units, so that projected integers fall on half pixels.
GeoTransform == <<4, 2, 0, 6, 0, -2>>

\* read_geo_file_info: shape (nbands, x, y), geo_transform, resolution.
read_geo_file_info(fname_or_fobj) ==
    [shape |-> <<fname_or_fobj.RasterCount, fname_or_fobj.RasterXSize,
                 fname_or_fobj.RasterYSize>>,
     geo_transform |-> GeoTransform,
     resolution |-> <<Abs(GeoTransform[2]), Abs(GeoTransform[6])>>]

\* _get_file_and_tiles: a plain file is its own single component; a mosaic
\* (.TIL / .VRT) of width xs has a left component of width xs - 1 and a
\* right component of width 1.
get_file_and_tiles(nb, xs, ys, mosaic) ==
    IF mosaic
    THEN [dfile |-> Raster(nb, xs, ys, 0),
          dfile_tiles |-> <<Raster(nb, xs - 1, ys, 0), Raster(nb, 1, ys, xs - 1)>>]
    ELSE [dfile |-> Raster(nb, xs, ys, 0),
          dfile_tiles |-> <<Raster(nb, xs, ys, 0)>>]

NoCall ==
    [op |-> "none", component |-> <<>>, bands |-> <<>>, window |-> <<>>,
     buffer |-> <<>>, geom |-> <<>>, mask |-> FALSE, mask_all_touched |-> FALSE]

NoGen ==
    [kind |-> "none", pc |-> "none", args |-> <<>>,
     win_size |-> <<>>, stride |-> <<>>,
     xoff |-> 0, yoff |-> 0, xoff_start |-> 0, counter |-> 0, no_chips |-> 0,
     c |-> 0, yielded |-> <<>>, err |-> "",
     nfeat |-> 0, properties |-> FALSE, filter |-> FALSE, kwarg |-> "",
     names |-> <<>>, prop_out |-> {},
     feat |-> [geom |-> <<>>, match |-> TRUE, keys |-> {}]]

\* _get_gdal_obj: the handle is opened read-only; nothing is written yet.
get_gdal_obj == [mode |-> "GA_ReadOnly", written |-> {}]

\* The attributes __init__ and _set_metadata set on the object.
InitAttributes == {"files", "_fobj", "meta", "shape", "resolution"}

Init ==
    /\ \E xs \in MinDim..MaxDim, ys \in MinDim..MaxDim, mosaic \in BOOLEAN :
          /\ files = get_file_and_tiles(NumBands, xs, ys, mosaic)
          /\ meta = read_geo_file_info(Raster(NumBands, xs, ys, 0))
    /\ pc = "idle"
    /\ call = NoCall
    /\ ret = Raised("none")
    /\ gen = NoGen
    /\ fobj = get_gdal_obj
    /\ attrs = InitAttributes

(***************************************************************************)
(* Direct calls of get_data.                                               *)
(***************************************************************************)
Offsets(dim) == (-MaxOver - 1)..(dim + MaxOver)

Sizes == 0..MaxWin

Buffers == {<<>>, <<MaxBuffer>>, <<MaxBuffer, 0>>}

BandLists == {<<>>, <<1>>, <<2, 1>>, <<NumBands + 1>>}

\* Projected coordinates on the half-pixel grid around the raster.
ProjXs == (GeoTransform[1] - 2 * MaxOver - 1)..
          (GeoTransform[1] + 2 * (meta.shape[2] + MaxOver))

ProjYs == (GeoTransform[4] - 2 * (meta.shape[3] + MaxOver))..
          (GeoTransform[4] + 2 * MaxOver + 1)

DoCall(c, zeroOk) ==
    /\ call' = c
    /\ ret' = get_data(files, meta, c.component, c.bands, c.window, c.buffer,
                       c.geom, c.mask, c.mask_all_touched, zeroOk)
    /\ pc' = "returned"
    /\ UNCHANGED <<files, meta, fobj, attrs, gen>>

\* get_data(window=[xoff, yoff, win_xsize, win_ysize], buffer=..., bands=..., mask=...)
GetDataWindow ==
    /\ pc = "idle"
    /\ \E xoff \in Offsets(meta.shape[2]), yoff \in Offsets(meta.shape[3]),
       xsize \in Sizes, ysize \in Sizes, buffer \in Buffers,
       bands \in {<<>>, <<1>>}, mask \in BOOLEAN, zeroOk \in BOOLEAN :
        DoCall([NoCall EXCEPT !.op = "window",
                              !.window = <<xoff, yoff, xsize, ysize>>,
                              !.buffer = buffer, !.bands = bands,
                              !.mask = mask], zeroOk)

\* get_data(geom=g, buffer=..., mask=..., mask_all_touched=...)
GetDataGeom ==
    /\ pc = "idle"
    /\ \E minX \in ProjXs, minY \in ProjYs, xlen \in 0..MaxGeom, ylen \in 0..MaxGeom,
          buffer \in {<<>>, <<MaxBuffer>>}, mask \in BOOLEAN,
          all_touched \in BOOLEAN, zeroOk \in BOOLEAN :
        /\ all_touched => mask
        /\ DoCall([NoCall EXCEPT !.op = "geom",
                                 !.geom = <<minX, minX + xlen, minY, minY + ylen>>,
                                 !.buffer = buffer, !.mask = mask,
                                 !.mask_all_touched = all_touched], zeroOk)

\* get_data() and get_data(component=c): the whole image or one component.
GetDataWhole ==
    /\ pc = "idle"
    /\ \E component \in {<<>>} \cup {<<c>> : c \in (-MaxOver - 1)..(Len(files.dfile_tiles) + 1)},
          bands \in BandLists, mask \in BOOLEAN, zeroOk \in BOOLEAN :
        DoCall([NoCall EXCEPT !.op = "whole", !.component = component,
                              !.bands = bands, !.mask = mask], zeroOk)

\* The caller takes the result; the image is ready for the next call.
Return ==
    /\ pc = "returned"
    /\ pc' = "idle"
    /\ call' = NoCall
    /\ ret' = Raised("none")
    /\ UNCHANGED <<files, meta, fobj, attrs, gen>>

Next ==
    \/ GetDataWindow
    \/ GetDataGeom
    \/ GetDataWhole
    \/ Return

Spec == Init /\ [][Next]_vars

(***************************************************************************)
(* The generators.  A generator runs only when the caller asks for its     *)
(* next item: Call creates the frame, Next runs it to its next yield, to   *)
(* its end ("done") or to the exception that ends it ("raised").           *)
(* gen.yielded lists the windows (or components) of the blocks yielded,    *)
(* gen.args the arguments of the call that created the generator.          *)
(***************************************************************************)
WinSizes == {<<>>} \cup {<<x, y>> : x \in 0..MaxTile, y \in 0..MaxTile}

Strides == {<<>>} \cup {<<x, y>> : x \in 0..MaxStride, y \in 0..MaxStride}

\* b.GetBlockSize() of band 1: the files are stored in strips of one row.
GetBlockSize(obj) == <<obj.RasterXSize, 1>>

\* The get_data call of a generator: ret and call are set, and the frame g
\* (with its locals already advanced) either yields the block or dies.
GenRead(g, c, item, zeroOk) ==
    /\ call' = c
    /\ ret' = get_data(files, meta, c.component, c.bands, c.window, c.buffer,
                       c.geom, c.mask, c.mask_all_touched, zeroOk)
    /\ gen' = IF ret'.status = "ok"
              THEN [g EXCEPT !.pc = "suspended",
                             !.yielded = Append(g.yielded, item)]
              ELSE [g EXCEPT !.pc = "raised", !.err = ret'.status]

GenRaise(g, err) ==
    /\ gen' = [g EXCEPT !.pc = "raised", !.err = err]
    /\ UNCHANGED <<call, ret>>

GenDone(g) ==
    /\ gen' = [g EXCEPT !.pc = "done"]
    /\ UNCHANGED <<call, ret>>

WindowCall(xoff, yoff, xsize, ysize) ==
    [NoCall EXCEPT !.op = "window", !.window = <<xoff, yoff, xsize, ysize>>]

\* iter_window(win_size, stride): the call only creates the generator.
IterWindowCall ==
    /\ pc = "idle"
    /\ \E win_size \in WinSizes, stride \in Strides :
          gen' = [NoGen EXCEPT !.kind = "window", !.pc = "created",
                               !.args = <<win_size, stride>>,
                               !.win_size = win_size, !.stride = stride]
    /\ pc' = "iterating"
    /\ UNCHANGED <<files, meta, fobj, attrs, call, ret>>

\* Variant of StartOffset that starts at the raster's edge.
StartOffsetAtEdge(dim, size, stride) == 0

\* Lines 420-423 and 459-462: the starting offset on one axis.
StartOffset(dim, size, stride) ==
    IF stride = 0 THEN (dim % size) \div 2 ELSE ((dim - size) % stride) \div 2

\* Variant of StepWindow that goes back to the raster's left edge, not to the
\* starting x offset, at the end of a row.
StepWindowResetToEdge(shape, xoff, yoff, xoff_start, xstep, ystep) ==
    LET x1 == xoff + xstep
        wrap == x1 > shape[2]
        x2 == IF wrap THEN 0 ELSE x1
        y2 == IF wrap THEN yoff + ystep ELSE yoff
    IN [xoff |-> x2, yoff |-> y2, stop |-> y2 > shape[3]]

\* Variant of StepWindow that starts the same row again at the end of a row.
StepWindowSameRow(shape, xoff, yoff, xoff_start, xstep, ystep) ==
    LET x1 == xoff + xstep
        wrap == x1 > shape[2]
        x2 == IF wrap THEN xoff_start ELSE x1
    IN [xoff |-> x2, yoff |-> yoff, stop |-> yoff > shape[3]]

\* Lines 431-436 and 469-474: the offsets after one step; stop tells the
\* loop to break.
StepWindow(shape, xoff, yoff, xoff_start, xstep, ystep) ==
    LET x1 == xoff + xstep
        wrap == x1 > shape[2]
        x2 == IF wrap THEN xoff_start ELSE x1
        y2 == IF wrap THEN yoff + ystep ELSE yoff
    IN [xoff |-> x2, yoff |-> y2, stop |-> y2 > shape[3]]

\* Lines 389-392: win_size is given and one of its values is <= 0.
InvalidWinSize(win_size) ==
    win_size # <<>> /\ \E i \in 1..2 : win_size[i] <= 0

\* Variant of InvalidStride that lets a stride of zero pass.
InvalidStrideNegativeOnly(stride) ==
    stride # <<>> /\ \E i \in 1..2 : stride[i] < 0

\* Lines 394-397: stride is given and one of its values is <= 0.
InvalidStride(stride) ==
    stride # <<>> /\ \E i \in 1..2 : stride[i] <= 0

\* First next() of iter_window: lines 389-430 / 449-468.
IterWindowFirst(zeroOk) ==
    /\ gen.pc = "created"
    /\ IF InvalidWinSize(gen.win_size)
       THEN GenRaise(gen, "ValueError")
       ELSE IF InvalidStride(gen.stride)
       THEN GenRaise(gen, "ValueError")
       ELSE LET win_size == IF gen.win_size = <<>> /\ gen.stride = <<>>
                            THEN GetBlockSize(files.dfile)
                            ELSE gen.win_size
            IN IF win_size = <<>>
               THEN GenRaise(gen, "ValueError")
               ELSE LET sx == IF gen.stride = <<>> THEN 0 ELSE gen.stride[1]
                        sy == IF gen.stride = <<>> THEN 0 ELSE gen.stride[2]
                        xoff == StartOffset(meta.shape[2], win_size[1], sx)
                        yoff == StartOffset(meta.shape[3], win_size[2], sy)
                        g == [gen EXCEPT !.win_size = win_size, !.xoff = xoff,
                                         !.yoff = yoff, !.xoff_start = xoff]
                    IN GenRead(g, WindowCall(xoff, yoff, win_size[1], win_size[2]),
                               <<xoff, yoff, win_size[1], win_size[2]>>, zeroOk)

\* Later next() of iter_window: lines 431-436 / 469-474, then the next read.
IterWindowResume(zeroOk) ==
    /\ gen.pc = "suspended"
    /\ LET xstep == IF gen.stride = <<>> THEN gen.win_size[1] ELSE gen.stride[1]
           ystep == IF gen.stride = <<>> THEN gen.win_size[2] ELSE gen.stride[2]
           n == StepWindow(meta.shape, gen.xoff, gen.yoff, gen.xoff_start,
                           xstep, ystep)
           g == [gen EXCEPT !.xoff = n.xoff, !.yoff = n.yoff]
       IN IF n.stop
          THEN GenDone(g)
          ELSE GenRead(g, WindowCall(n.xoff, n.yoff, gen.win_size[1], gen.win_size[2]),
                       <<n.xoff, n.yoff, gen.win_size[1], gen.win_size[2]>>, zeroOk)

IterWindowNext ==
    /\ pc = "iterating"
    /\ gen.kind = "window"
    /\ \E zeroOk \in BOOLEAN : IterWindowFirst(zeroOk) \/ IterWindowResume(zeroOk)
    /\ UNCHANGED <<files, meta, fobj, attrs, pc>>

\* iter_window_random(win_size, no_chips)
IterWindowRandomCall ==
    /\ pc = "idle"
    /\ \E win_size \in WinSizes, no_chips \in 0..MaxChips :
          gen' = [NoGen EXCEPT !.kind = "random", !.pc = "created",
                               !.args = <<win_size, no_chips>>,
                               !.win_size = win_size, !.no_chips = no_chips]
    /\ pc' = "iterating"
    /\ UNCHANGED <<files, meta, fobj, attrs, call, ret>>

\* Lines 507-511: draw the offsets, read and yield.  np.random.randint(n)
\* raises ValueError unless n > 0.
RandomDraw(g, zeroOk) ==
    LET xsize == g.win_size[1]
        ysize == g.win_size[2]
        xn == meta.shape[2] - xsize + 1
        yn == meta.shape[3] - ysize + 1
    IN IF xn <= 0 \/ yn <= 0
       THEN GenRaise(g, "ValueError")
       ELSE \E xoff \in 0..(xn - 1), yoff \in 0..(yn - 1) :
               GenRead([g EXCEPT !.xoff = xoff, !.yoff = yoff],
                       WindowCall(xoff, yoff, xsize, ysize),
                       <<xoff, yoff, xsize, ysize>>, zeroOk)

\* First next(): lines 496-511.  Unpacking win_size=None is a TypeError.
IterWindowRandomFirst(zeroOk) ==
    /\ gen.pc = "created"
    /\ IF gen.win_size = <<>>
       THEN GenRaise(gen, "TypeError")
       ELSE IF \E i \in 1..2 : gen.win_size[i] <= 0
       THEN GenRaise(gen, "ValueError")
       ELSE RandomDraw([gen EXCEPT !.counter = gen.no_chips], zeroOk)

\* Later next(): lines 512-513, then the next draw.  The model follows the
\* generator for at most MaxExtraChips blocks beyond no_chips.
IterWindowRandomResume(zeroOk) ==
    /\ gen.pc = "suspended"
    /\ LET g == [gen EXCEPT !.counter = gen.counter - 1]
       IN IF g.counter = 0
          THEN GenDone(g)
          ELSE /\ Len(gen.yielded) < gen.no_chips + MaxExtraChips
               /\ RandomDraw(g, zeroOk)

IterWindowRandomNext ==
    /\ pc = "iterating"
    /\ gen.kind = "random"
    /\ \E zeroOk \in BOOLEAN :
          IterWindowRandomFirst(zeroOk) \/ IterWindowRandomResume(zeroOk)
    /\ UNCHANGED <<files, meta, fobj, attrs, pc>>

\* iter_components()
IterComponentsCall ==
    /\ pc = "idle"
    /\ gen' = [NoGen EXCEPT !.kind = "components", !.pc = "created"]
    /\ pc' = "iterating"
    /\ UNCHANGED <<files, meta, fobj, attrs, call, ret>>

\* Lines 521-522: for c in xrange(len(dfile_tiles)): yield get_data(component=c).
\* gen.c is the next value of c.
IterComponentsNext ==
    /\ pc = "iterating"
    /\ gen.kind = "components"
    /\ gen.pc \in {"created", "suspended"}
    /\ IF gen.c >= Len(files.dfile_tiles)
       THEN GenDone(gen)
       ELSE \E zeroOk \in BOOLEAN :
               GenRead([gen EXCEPT !.c = gen.c + 1],
                       [NoCall EXCEPT !.op = "whole", !.component = <<gen.c>>],
                       <<gen.c>>, zeroOk)
    /\ UNCHANGED <<files, meta, fobj, attrs, pc>>

\* The caller drops the generator once it has ended.
GenClose ==
    /\ pc = "iterating"
    /\ gen.pc \in {"done", "raised"}
    /\ pc' = "idle"
    /\ gen' = NoGen
    /\ call' = NoCall
    /\ ret' = Raised("none")
    /\ UNCHANGED <<files, meta, fobj, attrs>>

NextIter ==
    \/ IterWindowCall
    \/ IterWindowNext
    \/ IterWindowRandomCall
    \/ IterWindowRandomNext
    \/ IterComponentsCall
    \/ IterComponentsNext
    \/ GenClose

SpecIter == Init /\ [][NextIter]_vars

(***************************************************************************)
(* iter_vector.  The vector layer has gen.nfeat features; the layer hands  *)
(* out one feature at a time, and what the feature is (its geometry, and   *)
(* whether its properties match the filter) is known when it is handed     *)
(* out.  gen.c counts the features taken, gen.feat is the last one taken.  *)
(* An item yielded is <<data>> or, with properties, <<data, properties>>,  *)
(* where data is "data" for a block and "None" for None.                   *)
(***************************************************************************)
\* The envelope (minX, maxX, minY, maxY) of a feature lying in the pixel cell
\* at column i and row j of the raster grid, half a pixel wide and high.
FeatureGeom(i, j) ==
    <<GeoTransform[1] + GeoTransform[2] * i,
      GeoTransform[1] + GeoTransform[2] * i + 1,
      GeoTransform[4] + GeoTransform[6] * j - 1,
      GeoTransform[4] + GeoTransform[6] * j>>

\* The cells (column, row) of the features: the cells of the first row and
\* of the first column of the grid, from one cell before the raster to one
\* cell after its edge.
FeatureCells(shape) ==
    {<<i, 0>> : i \in (-1)..(shape[2] + 1)} \cup
    {<<0, j>> : j \in (-1)..(shape[3] + 1)}

\* The property names a caller asks for: none (properties is True or False)
\* or a list of names.
PropertyNames == {<<>>, <<"a">>, <<"a", "b">>, <<"">>}

\* The attribute names a feature of the layer may have.
FeatureKeys == {{"a"}, {"a", ""}}

\* iter_vector(vector, properties, filter, **kwargs): creates the generator.
\* properties tells whether the argument is truthy, names is the list given.
IterVectorCall ==
    /\ pc = "idle"
    /\ \E nfeat \in 0..MaxFeatures, properties \in BOOLEAN, filter \in BOOLEAN,
          kwarg \in {"", "window", "geom"} :
          \E names \in (IF properties THEN PropertyNames ELSE {<<>>}) :
          gen' = [NoGen EXCEPT !.kind = "vector", !.pc = "created",
                               !.args = <<nfeat, properties, filter, kwarg>>,
                               !.nfeat = nfeat, !.properties = properties,
                               !.filter = filter, !.kwarg = kwarg,
                               !.names = names]
    /\ pc' = "iterating"
    /\ UNCHANGED <<files, meta, fobj, attrs, call, ret>>

\* Variant of RejectedItems in which a feature rejected by the filter is
\* skipped without a yield.
RejectedItemsSkipped(properties) == <<>>

\* Lines 603-609: what is yielded for a feature the filter rejects.
RejectedItems(properties) ==
    IF properties THEN << <<"None", "None">> >> ELSE << <<"None">> >>

\* Lines 624-628: the item yielded for a feature that was read.
ReadItem(data, properties) ==
    IF properties THEN <<data, "prop_out">> ELSE <<data>>

\* Lines 617-628: get_data(geom=geom) with OverlapError caught, then the yield.
GenReadVector(g, c, zeroOk) ==
    /\ call' = c
    /\ ret' = get_data(files, meta, c.component, c.bands, c.window, c.buffer,
                       c.geom, c.mask, c.mask_all_touched, zeroOk)
    /\ gen' = IF ret'.status = "ok"
              THEN [g EXCEPT !.pc = "suspended",
                             !.yielded = Append(g.yielded,
                                                ReadItem("data", g.properties))]
              ELSE IF ret'.status = "OverlapError"
              THEN [g EXCEPT !.pc = "suspended",
                             !.yielded = Append(g.yielded,
                                                ReadItem("None", g.properties))]
              ELSE [g EXCEPT !.pc = "raised", !.err = ret'.status]

\* Lines 560-563: not all(x for x in properties if x in it.keys()): of the
\* names the feature has, one is falsy (the empty string).
PropertiesRejected(names, keys) ==
    \E i \in 1..Len(names) : names[i] \in keys /\ names[i] = ""

\* Lines 554-568: prop_out, by its keys: all of the feature's for True, else
\* the requested names the feature has.
PropOut(names, keys) ==
    IF names = <<>> THEN keys ELSE {names[i] : i \in 1..Len(names)} \cap keys

\* Lines 573-628: the filter, the read and the yield for one feature.
VectorFeatureRead(g, zeroOk) ==
    IF g.filter /\ ~g.feat.match
    THEN /\ gen' = [g EXCEPT !.pc = "suspended",
                             !.yielded = g.yielded \o RejectedItems(g.properties)]
         /\ UNCHANGED <<call, ret>>
    ELSE GenReadVector(g, [NoCall EXCEPT !.op = "geom", !.geom = g.feat.geom],
                       zeroOk)

\* Lines 552-628: one feature of the layer.
VectorFeature(g, zeroOk) ==
    IF g.properties /\ PropertiesRejected(g.names, g.feat.keys)
    THEN GenRaise(g, "ValueError")
    ELSE IF g.properties
    THEN VectorFeatureRead([g EXCEPT !.prop_out = PropOut(g.names, g.feat.keys)],
                           zeroOk)
    ELSE VectorFeatureRead(g, zeroOk)

\* next() of iter_vector: lines 529-550 on the first call, then the loop.
IterVectorNext ==
    /\ pc = "iterating"
    /\ gen.kind = "vector"
    /\ gen.pc \in {"created", "suspended"}
    /\ IF gen.pc = "created" /\ gen.kwarg # ""
       THEN GenRaise(gen, "ValueError")
       ELSE IF gen.c >= gen.nfeat
       THEN GenDone(gen)
       ELSE \E cell \in FeatureCells(meta.shape),
               match \in (IF gen.filter THEN BOOLEAN ELSE {TRUE}),
               keys \in (IF gen.names = <<>> THEN {{"a"}} ELSE FeatureKeys),
               zeroOk \in BOOLEAN :
               VectorFeature([gen EXCEPT !.c = gen.c + 1,
                                         !.feat = [geom |-> FeatureGeom(cell[1], cell[2]),
                                                   match |-> match,
                                                   keys |-> keys]],
                             zeroOk)
    /\ UNCHANGED <<files, meta, fobj, attrs, pc>>

NextVector ==
    \/ IterVectorCall
    \/ IterVectorNext
    \/ GenClose

SpecVector == Init /\ [][NextVector]_vars

(***************************************************************************)
(* raster_to_proj and proj_to_raster on images with any invertible geo     *)
(* transform, rotation and shear terms included.  A call records its       *)
(* arguments in call.args and its result in ret.value; proj_to_raster is   *)
(* applied to the point raster_to_proj has just returned, and call.from    *)
(* keeps the pixel that point came from.                                   *)
(***************************************************************************)
Coefs == (-MaxCoef)..MaxCoef

\* The geo transforms (c0, c1, c2, c3, c4, c5) with c1*c5 - c2*c4 # 0.
GeoTransforms ==
    {<<GeoTransform[1], c1, c2, GeoTransform[4], c4, c5>> :
        c1 \in Coefs, c2 \in Coefs, c4 \in Coefs, c5 \in Coefs} \
    {t \in {<<GeoTransform[1], c1, c2, GeoTransform[4], c4, c5>> :
               c1 \in Coefs, c2 \in Coefs, c4 \in Coefs, c5 \in Coefs} :
        t[2] * t[6] - t[3] * t[5] = 0}

InitAffine ==
    /\ files = get_file_and_tiles(NumBands, MaxDim, MinDim, FALSE)
    /\ \E t \in GeoTransforms :
          meta = [read_geo_file_info(Raster(NumBands, MaxDim, MinDim, 0))
                     EXCEPT !.geo_transform = t,
                            !.resolution = <<Abs(t[2]), Abs(t[6])>>]
    /\ pc = "idle"
    /\ call = NoCall
    /\ ret = Raised("none")
    /\ gen = NoGen
    /\ fobj = get_gdal_obj
    /\ attrs = InitAttributes

\* raster_to_proj(x, y) for a pixel coordinate of the raster grid.
RasterToProj ==
    /\ pc = "idle"
    /\ \E x \in 0..meta.shape[2], y \in 0..meta.shape[3] :
          /\ call' = [op |-> "raster_to_proj", args |-> <<x, y>>]
          /\ ret' = [status |-> "ok",
                     value |-> raster_to_proj(meta.geo_transform, x, y)]
    /\ pc' = "returned"
    /\ UNCHANGED <<files, meta, fobj, attrs, gen>>

\* proj_to_raster(projx, projy) for the point raster_to_proj returned.
ProjToRaster ==
    /\ pc = "returned"
    /\ call.op = "raster_to_proj"
    /\ call' = [op |-> "proj_to_raster", args |-> ret.value, from |-> call.args]
    /\ ret' = [status |-> "ok",
               value |-> proj_to_raster(meta.geo_transform, ret.value[1],
                                        ret.value[2])]
    /\ UNCHANGED <<files, meta, fobj, attrs, pc, gen>>

NextAffine ==
    \/ RasterToProj
    \/ ProjToRaster
    \/ Return

SpecAffine == InitAffine /\ [][NextAffine]_vars

(***************************************************************************)
(* write_img_replace_this(np_array).  The array is given by its shape      *)
(* (bands, rows, columns) and by whether its dtype is the image's.         *)
(***************************************************************************)
\* Lines 1229-1241: reopen in update mode, write every band, reopen read-only.
ReplaceBands(nbands) == [mode |-> "GA_ReadOnly", written |-> 1..nbands]

\* The outcome of write_img_replace_this: the exception raised ("ok" for
\* none) and the handle it leaves.
write_img_replace_this(m, f, a, shape, dtype_ok) ==
    IF shape # <<m.shape[1], m.shape[3], m.shape[2]>>
    THEN [status |-> "ValueError", fobj |-> f]
    ELSE IF ~dtype_ok
    THEN [status |-> "ValueError", fobj |-> f]
    ELSE IF "meta_fname" \notin a
    THEN [status |-> "AttributeError", fobj |-> f]
    ELSE [status |-> "ok", fobj |-> ReplaceBands(m.shape[1])]

WriteImgReplaceThis ==
    /\ pc = "idle"
    /\ \E zt \in 1..(NumBands + 1), rows \in 1..MaxDim, cols \in 1..MaxDim,
          dtype_ok \in BOOLEAN :
          /\ call' = [op |-> "write_img_replace_this",
                      shape |-> <<zt, rows, cols>>, dtype_ok |-> dtype_ok]
          /\ ret' = [status |-> write_img_replace_this(
                                    meta, fobj, attrs, <<zt, rows, cols>>,
                                    dtype_ok).status]
          /\ fobj' = write_img_replace_this(meta, fobj, attrs, <<zt, rows, cols>>,
                                            dtype_ok).fobj
    /\ pc' = "returned"
    /\ UNCHANGED <<files, meta, attrs, gen>>

NextWrite ==
    \/ WriteImgReplaceThis
    \/ Return

SpecWrite == Init /\ [][NextWrite]_vars

(***************************************************************************)
(* create_geo_image and write_img_like_this.  The caller's array is an     *)
(* object: call.given holds its elements when it is passed and             *)
(* call.data_np_array the elements it holds when the call has returned.    *)
(* The elements are floats, "1" for any finite number.                     *)
(***************************************************************************)
Values == {"1", "nan", "inf"}

\* The no-data value: None or a number.
NDVs == {"None", "0", "9"}

\* The file name and the driver name asked for.
NewFiles == {<<"out.tif", "GTiff">>, <<"out.vrt", "VRT">>, <<"out.tif", "VRT">>}

\* What the driver does with the request: it creates the file, it does not
\* support the array's dtype, or Create gives no dataset.
DriverOutcomes == {"ok", "dtype", "create"}

\* An array of the given shape holding v1 in its first element and v2
\* everywhere else.
FilledArray(zt, rows, cols, v1, v2) ==
    Array(zt, rows, cols,
          [b \in 1..zt |->
              [r \in 1..rows |->
                  [c \in 1..cols |->
                      IF b = 1 /\ r = 1 /\ c = 1 THEN v1 ELSE v2]]])

\* Lines 1320-1345: a VRT is written with the fallback driver, GTiff, and a
\* .vrt file name gets the extension of that driver.
FallbackFileName(new_file_name, gdal_driver_name) ==
    IF gdal_driver_name = "VRT" /\ new_file_name = "out.vrt" THEN "out.TIF"
    ELSE new_file_name

\* Lines 1388-1391: data_np_array[np.isnan(...)] = NDV, then the same for
\* np.isinf: the elements of the array after the two assignments.
ReplaceNonFinite(data_np_array, NDV) ==
    IF NDV = "None" THEN data_np_array
    ELSE Array(data_np_array.shape[1], data_np_array.shape[2],
               data_np_array.shape[3],
               [b \in 1..data_np_array.shape[1] |->
                   [r \in 1..data_np_array.shape[2] |->
                       [c \in 1..data_np_array.shape[3] |->
                           IF data_np_array.a[b][r][c] \in {"nan", "inf"}
                           THEN NDV ELSE data_np_array.a[b][r][c]]]])

\* create_geo_image: the exception raised ("ok" for none), the file name
\* returned, the file written and the elements the array object holds
\* afterwards.  A 2-D array is given a band axis by a view (line 1362), which
\* shares the elements of the caller's array.
create_geo_image(new_file_name, data_np_array, ndim, gdal_driver_name, NDV, outcome) ==
    IF ndim \notin {2, 3}
    THEN [status |-> "ValueError", value |-> "", file |-> <<>>,
          data_np_array |-> data_np_array]
    ELSE IF outcome = "dtype"
    THEN [status |-> "ValueError", value |-> "", file |-> <<>>,
          data_np_array |-> data_np_array]
    ELSE IF outcome = "create"
    THEN [status |-> "AttributeError", value |-> "", file |-> <<>>,
          data_np_array |-> data_np_array]
    ELSE [status |-> "ok",
          value |-> FallbackFileName(new_file_name, gdal_driver_name),
          file |-> [bands |-> ReplaceNonFinite(data_np_array, NDV).a,
                    no_data_value |-> NDV],
          data_np_array |-> ReplaceNonFinite(data_np_array, NDV)]

\* write_img_like_this: lines 1158-1172, then create_geo_image with the
\* image's no-data value.
write_img_like_this(m, new_fname, np_array, ndim, gdal_driver_name, NDV, outcome) ==
    IF ndim \notin {2, 3}
    THEN [status |-> "ValueError", value |-> "", file |-> <<>>,
          data_np_array |-> np_array]
    ELSE IF np_array.shape[2] # m.shape[3] \/ np_array.shape[3] # m.shape[2]
    THEN [status |-> "ValueError", value |-> "", file |-> <<>>,
          data_np_array |-> np_array]
    ELSE create_geo_image(new_fname, np_array, ndim, gdal_driver_name, NDV,
                          outcome)

\* The arrays a caller passes: with ndim 2 the array has no band axis (one
\* band here), with ndim 4 its shape beyond the third axis is not modelled.
CallerArrays(ndim) ==
    {FilledArray(zt, rows, cols, v1, v2) :
        zt \in (IF ndim = 3 THEN 1..NumBands ELSE {1}),
        rows \in MinDim..MaxDim, cols \in MinDim..MaxDim,
        v1 \in Values, v2 \in Values}

CreateGeoImage ==
    /\ pc = "idle"
    /\ \E ndim \in 2..4, nf \in NewFiles, NDV \in NDVs, outcome \in DriverOutcomes :
          \E data_np_array \in CallerArrays(ndim) :
          /\ ret' = create_geo_image(nf[1], data_np_array, ndim, nf[2], NDV,
                                     outcome)
          /\ call' = [op |-> "create_geo_image", new_file_name |-> nf[1],
                      gdal_driver_name |-> nf[2], ndim |-> ndim, NDV |-> NDV,
                      given |-> data_np_array,
                      data_np_array |-> ret'.data_np_array]
    /\ pc' = "returned"
    /\ UNCHANGED <<files, meta, fobj, attrs, gen>>

\* The no-data value is the one read from band 1 of the image's file and the
\* driver is the image's unless one is named.
WriteImgLikeThis ==
    /\ pc = "idle"
    /\ \E ndim \in 2..4, nf \in NewFiles, NDV \in NDVs, outcome \in DriverOutcomes :
          \E np_array \in CallerArrays(ndim) :
          /\ ret' = write_img_like_this(meta, nf[1], np_array, ndim, nf[2], NDV,
                                        outcome)
          /\ call' = [op |-> "write_img_like_this", new_file_name |-> nf[1],
                      gdal_driver_name |-> nf[2], ndim |-> ndim, NDV |-> NDV,
                      given |-> np_array,
                      data_np_array |-> ret'.data_np_array]
    /\ pc' = "returned"
    /\ UNCHANGED <<files, meta, fobj, attrs, gen>>

NextCreate ==
    \/ CreateGeoImage
    \/ WriteImgLikeThis
    \/ Return

SpecCreate == Init /\ [][NextCreate]_vars

(***************************************************************************)
(* Two generators over one image, advanced by the caller in any order.     *)
(* gen holds the two frames; the handle also tells whether its decoder     *)
(* accepts a read of size zero.                                            *)
(***************************************************************************)
PairWinSizes == {<<>>, <<1, 1>>, <<MaxWin, 1>>}

PairStrides == {<<>>, <<MaxWin, MaxWin>>}

\* The array_like arguments of iter_base: one or two x offsets, and a scalar
\* y offset and window size.
BaseArgs ==
    {<<xoff, 0, size, 1>> :
        xoff \in {<<x>> : x \in 0..1} \cup {<<x, y>> : x \in 0..1, y \in 0..1},
        size \in {1}}

\* Line 349: np.broadcast(xoff, yoff, win_xsize, win_ysize).
Broadcast(xoff, yoff, win_xsize, win_ysize) ==
    [i \in 1..Len(xoff) |-> <<xoff[i], yoff, win_xsize, win_ysize>>]

\* Calling a generator function binds its arguments in a new frame.
NewFrame(kind, args) ==
    IF kind = "window"
    THEN [NoGen EXCEPT !.kind = kind, !.pc = "created", !.args = args,
                       !.win_size = args[1], !.stride = args[2]]
    ELSE [NoGen EXCEPT !.kind = kind, !.pc = "created", !.args = args]

\* Variant of Locals in which the offsets and the position are those of the
\* first generator, as if they were kept on the image.
LocalsOnImage(frames, i) ==
    [frames[i] EXCEPT !.xoff = frames[1].xoff, !.yoff = frames[1].yoff,
                      !.xoff_start = frames[1].xoff_start, !.c = frames[1].c]

\* The local variables generator i resumes with: xoff, yoff, xoff_start,
\* win_size and the position in windows are locals of the generator's frame.
Locals(frames, i) == frames[i]

\* yield self.get_data(window=w): the frame after the read.
FrameRead(g, w, zeroOk) ==
    IF get_data(files, meta, <<>>, <<>>, w, <<>>, <<>>, FALSE, FALSE,
                zeroOk).status = "ok"
    THEN [g EXCEPT !.pc = "suspended", !.yielded = Append(g.yielded, w)]
    ELSE [g EXCEPT !.pc = "raised",
                   !.err = get_data(files, meta, <<>>, <<>>, w, <<>>, <<>>,
                                    FALSE, FALSE, zeroOk).status]

\* Lines 402-405: the default tile is the block size of band 1.
DefaultWinSize(g) ==
    IF g.win_size = <<>> /\ g.stride = <<>> THEN GetBlockSize(files.dfile)
    ELSE g.win_size

\* The stride used by the start offset on axis i (0: adjoining tiling).
FrameStride(g, i) == IF g.stride = <<>> THEN 0 ELSE g.stride[i]

\* The step on axis i.
FrameStep(g, i) == IF g.stride = <<>> THEN g.win_size[i] ELSE g.stride[i]

\* Lines 411-430 and 449-468: the frame at its first yield.
IterWindowStart(g, win_size, zeroOk) ==
    FrameRead([g EXCEPT !.win_size = win_size,
                        !.xoff = StartOffset(meta.shape[2], win_size[1],
                                             FrameStride(g, 1)),
                        !.yoff = StartOffset(meta.shape[3], win_size[2],
                                             FrameStride(g, 2)),
                        !.xoff_start = StartOffset(meta.shape[2], win_size[1],
                                                   FrameStride(g, 1))],
              <<StartOffset(meta.shape[2], win_size[1], FrameStride(g, 1)),
                StartOffset(meta.shape[3], win_size[2], FrameStride(g, 2)),
                win_size[1], win_size[2]>>, zeroOk)

\* Lines 431-436 and 469-474: the frame after the step n.
IterWindowStepped(g, n, zeroOk) ==
    IF n.stop
    THEN [g EXCEPT !.xoff = n.xoff, !.yoff = n.yoff, !.pc = "done"]
    ELSE FrameRead([g EXCEPT !.xoff = n.xoff, !.yoff = n.yoff],
                   <<n.xoff, n.yoff, g.win_size[1], g.win_size[2]>>, zeroOk)

\* One next() of an iter_window generator: the frame it leaves.
IterWindowFrame(g, zeroOk) ==
    IF g.pc = "created"
    THEN IF InvalidWinSize(g.win_size) \/ InvalidStride(g.stride)
              \/ DefaultWinSize(g) = <<>>
         THEN [g EXCEPT !.pc = "raised", !.err = "ValueError"]
         ELSE IterWindowStart(g, DefaultWinSize(g), zeroOk)
    ELSE IterWindowStepped(g, StepWindow(meta.shape, g.xoff, g.yoff,
                                         g.xoff_start, FrameStep(g, 1),
                                         FrameStep(g, 2)), zeroOk)

\* One next() of an iter_base generator (lines 349-356): the frame it leaves.
IterBaseFrame(g, windows, zeroOk) ==
    IF g.c >= Len(windows)
    THEN [g EXCEPT !.pc = "done"]
    ELSE FrameRead([g EXCEPT !.c = g.c + 1], windows[g.c + 1], zeroOk)

\* One next() of generator i.
FrameNext(frames, i, zeroOk) ==
    IF frames[i].kind = "window"
    THEN IterWindowFrame(Locals(frames, i), zeroOk)
    ELSE IterBaseFrame(Locals(frames, i),
                       Broadcast(frames[i].args[1], frames[i].args[2],
                                 frames[i].args[3], frames[i].args[4]), zeroOk)

InitPair ==
    /\ \E xs \in MinDim..MaxDim, ys \in MinDim..MaxDim, mosaic \in BOOLEAN :
          /\ files = get_file_and_tiles(NumBands, xs, ys, mosaic)
          /\ meta = read_geo_file_info(Raster(NumBands, xs, ys, 0))
    /\ pc = "idle"
    /\ call = NoCall
    /\ ret = Raised("none")
    /\ gen = NoGen
    /\ \E zeroOk \in BOOLEAN :
          fobj = [mode |-> "GA_ReadOnly", written |-> {}, zeroOk |-> zeroOk]
    /\ attrs = InitAttributes

\* a = img.iter_window(...); b = img.iter_window(...) or img.iter_base(...)
PairCall ==
    /\ pc = "idle"
    /\ \E win_size \in PairWinSizes, stride \in PairStrides :
          \/ \E win_size2 \in PairWinSizes, stride2 \in PairStrides :
                gen' = <<NewFrame("window", <<win_size, stride>>),
                         NewFrame("window", <<win_size2, stride2>>)>>
          \/ \E args \in BaseArgs :
                gen' = <<NewFrame("window", <<win_size, stride>>),
                         NewFrame("base", args)>>
    /\ pc' = "iterating"
    /\ UNCHANGED <<files, meta, fobj, attrs, call, ret>>

\* next(a) or next(b)
PairNext ==
    /\ pc = "iterating"
    /\ \E i \in 1..2 :
          /\ gen[i].pc \in {"created", "suspended"}
          /\ gen' = [gen EXCEPT ![i] = FrameNext(gen, i, fobj.zeroOk)]
    /\ UNCHANGED <<files, meta, fobj, attrs, pc, call, ret>>

\* The caller drops both generators once they have ended.
PairClose ==
    /\ pc = "iterating"
    /\ \A i \in 1..2 : gen[i].pc \in {"done", "raised"}
    /\ pc' = "idle"
    /\ gen' = NoGen
    /\ UNCHANGED <<files, meta, fobj, attrs, call, ret>>

NextPair ==
    \/ PairCall
    \/ PairNext
    \/ PairClose

SpecPair == InitPair /\ [][NextPair]_vars

(***************************************************************************)
(* The properties.  The request is read from call, the outcome from ret    *)
(* and gen; what the request asks for is computed here from the request    *)
(* alone.                                                                  *)
(***************************************************************************)
Max2(a, b) == IF a >= b THEN a ELSE b

Min2(a, b) == IF a <= b THEN a ELSE b

Range(s) == {s[i] : i \in DOMAIN s}

ReqBandCount(c) == IF c.bands = <<>> THEN NumBands ELSE Len(c.bands)

ReqBand(c, i) == IF c.bands = <<>> THEN i ELSE c.bands[i]

BufX(c) == IF c.buffer = <<>> THEN 0 ELSE c.buffer[1]

BufY(c) ==
    IF c.buffer = <<>> THEN 0
    ELSE IF Len(c.buffer) = 1 THEN c.buffer[1] ELSE c.buffer[2]

\* The window the request names, before the buffer.
ReqWindow(c) ==
    IF c.op = "window" THEN c.window
    ELSE IF c.op = "geom" THEN extent_to_window(meta, c.geom).window
    ELSE <<0, 0, meta.shape[2], meta.shape[3]>>

\* The requested window with the buffer on every side.
BufferedWindow(c) ==
    <<ReqWindow(c)[1] - BufX(c), ReqWindow(c)[2] - BufY(c),
      ReqWindow(c)[3] + 2 * BufX(c), ReqWindow(c)[4] + 2 * BufY(c)>>

\* Columns / rows of window w cut off on each side of the raster.
CutLeft(w) == Max2(0, -w[1])

CutRight(w) == Max2(0, w[1] + w[3] - meta.shape[2])

CutTop(w) == Max2(0, -w[2])

CutBottom(w) == Max2(0, w[2] + w[4] - meta.shape[3])

\* Width and height of the part of window w inside the raster.
InsideWidth(w) == Min2(w[1] + w[3], meta.shape[2]) - Max2(w[1], 0)

InsideHeight(w) == Min2(w[2] + w[4], meta.shape[3]) - Max2(w[2], 0)

SharesPixel(w) == InsideWidth(w) > 0 /\ InsideHeight(w) > 0

FullyInside(w) ==
    /\ w[1] >= 0 /\ w[2] >= 0 /\ w[3] >= 1 /\ w[4] >= 1
    /\ w[1] + w[3] <= meta.shape[2]
    /\ w[2] + w[4] <= meta.shape[3]

\* Element (r, c) (1-based) of the block for window w lies in one of the
\* padded sides, which are top, bottom, left and right wide.
IsPadding(w, top, bottom, left, right, r, c) ==
    \/ r <= top \/ r > w[4] - bottom
    \/ c <= left \/ c > w[3] - right

WellShaped(arr) ==
    /\ Len(arr.a) = arr.shape[1]
    /\ \A b \in 1..arr.shape[1] :
          /\ Len(arr.a[b]) = arr.shape[2]
          /\ \A r \in 1..arr.shape[2] : Len(arr.a[b][r]) = arr.shape[3]

WindowReturned == pc = "returned" /\ call.op = "window" /\ ret.status = "ok"

\* C1: every block get_data returns for an explicit window (buffered or not,
\* over the edge or not) has the shape (requested bands, h + 2*by, w + 2*bx).
C1_PaddedShape ==
    WindowReturned =>
        /\ ret.data.shape = <<ReqBandCount(call), call.window[4] + 2 * BufY(call),
                              call.window[3] + 2 * BufX(call)>>
        /\ WellShaped(ret.data)
        /\ call.mask => ret.mask.shape = ret.data.shape /\ WellShaped(ret.mask)

\* A buffered window hanging over the left, right and top edges was returned.
C1_Witness ==
    /\ WindowReturned
    /\ call.buffer # <<>>
    /\ ret.pads[1] > 0 /\ ret.pads[2] > 0 /\ ret.pads[3] > 0
    /\ ret.data.shape[2] > ret.pads[3]

\* C2: the block of a window hanging over the edges holds the raster pixels of
\* the in-bounds part at row offset = rows cut at the top and column offset =
\* columns cut at the left, and zero everywhere else.
C2_OverhangContent ==
    WindowReturned =>
        LET w == BufferedWindow(call)
            top == CutTop(w)
            left == CutLeft(w)
            rows == InsideHeight(w)
            cols == InsideWidth(w)
            x0 == Max2(w[1], 0)
            y0 == Max2(w[2], 0)
        IN \A b \in 1..ret.data.shape[1], r \in 1..ret.data.shape[2],
              c \in 1..ret.data.shape[3] :
               ret.data.a[b][r][c] =
                   IF /\ r > top /\ r <= top + rows
                      /\ c > left /\ c <= left + cols
                   THEN PixelValue(files.dfile, ReqBand(call, b),
                                   x0 + c - left - 1, y0 + r - top - 1)
                   ELSE 0

\* A window over the top-left corner came back with zero padding on the top
\* and left and a nonzero raster pixel behind it.
C2_Witness ==
    /\ WindowReturned
    /\ call.buffer = <<>>
    /\ call.window[1] < 0 /\ call.window[2] < 0
    /\ ret.pads[1] > 0 /\ ret.pads[3] > 0
    /\ \E r \in 1..ret.data.shape[2], c \in 1..ret.data.shape[3] :
          ret.data.a[1][r][c] # 0

\* C3: an explicit window whose buffered intersection with the raster is
\* empty makes get_data raise OverlapError.
C3_EmptyWindowRaisesOverlapError ==
    (pc = "returned" /\ call.op = "window" /\ ~SharesPixel(BufferedWindow(call)))
        => ret.status = "OverlapError"

\* C4: a geometry whose envelope window shares no pixel with the raster
\* makes get_data raise OverlapError.
C4_EnvelopeOutsideRaisesOverlapError ==
    (pc = "returned" /\ call.op = "geom" /\ ~SharesPixel(ReqWindow(call)))
        => ret.status = "OverlapError"

\* C5: a request (window or geometry envelope) sharing at least one pixel
\* with the raster never ends in OverlapError.
C5_OverlapNeverRaisesOverlapError ==
    (pc = "returned" /\ call.op \in {"window", "geom"} /\ SharesPixel(ReqWindow(call)))
        => ret.status # "OverlapError"

\* A geometry whose envelope hangs over the right edge of the raster was read.
C5_Witness ==
    /\ pc = "returned" /\ call.op = "geom" /\ ret.status = "ok"
    /\ SharesPixel(ReqWindow(call))
    /\ CutRight(ReqWindow(call)) > 0

\* C7: with mask=True every padded element of the returned block is excluded
\* by the mask and has the data value zero.
C7_PaddingMaskedAndZero ==
    (pc = "returned" /\ ret.status = "ok" /\ call.mask) =>
        LET w == BufferedWindow(call)
            top == CutTop(w)
            bottom == CutBottom(w)
            left == CutLeft(w)
            right == CutRight(w)
        IN \A b \in 1..ret.data.shape[1], r \in 1..ret.data.shape[2],
              c \in 1..ret.data.shape[3] :
               IsPadding(w, top, bottom, left, right, r, c) =>
                   /\ ret.mask.a[b][r][c] = TRUE
                   /\ ret.data.a[b][r][c] = 0

\* A masked geometry read came back padded on the left, where the geometry
\* itself reaches beyond the raster, and also keeps an element unmasked.
C7_Witness ==
    /\ pc = "returned" /\ ret.status = "ok" /\ call.mask /\ call.op = "geom"
    /\ CutLeft(BufferedWindow(call)) > 0
    /\ ret.mask.a[1][1][1] = TRUE
    /\ \E r \in 1..ret.data.shape[2], c \in 1..ret.data.shape[3] :
          ret.mask.a[1][r][c] = FALSE

\* C8: a window fully inside the raster, without buffer, is read with exactly
\* the requested (xoff, yoff, w, h) and needs no padding on any side.
C8_InsideWindowUnchanged ==
    (pc = "returned" /\ call.op = "window" /\ call.buffer = <<>>
        /\ FullyInside(call.window)) =>
        /\ ret.status = "ok"
        /\ ret.read = call.window
        /\ ret.pads = <<0, 0, 0, 0>>

\* A window reaching the right and bottom edges of a non-square raster.
C8_Witness ==
    /\ WindowReturned /\ call.buffer = <<>> /\ FullyInside(call.window)
    /\ meta.shape[2] # meta.shape[3]
    /\ call.window[1] + call.window[3] = meta.shape[2]
    /\ call.window[2] + call.window[4] = meta.shape[3]
    /\ ret.read = call.window

GenEnded == gen.pc \in {"done", "raised"}

\* C6: adjoining tiling with a tile (tw, th) dividing the raster size (W, H)
\* ends after exactly (W/tw)*(H/th) windows that tile the raster.
C6_ExactTiling ==
    (/\ gen.kind = "window" /\ gen.stride = <<>> /\ GenEnded
     /\ gen.args[1] # <<>>
     /\ gen.win_size[1] > 0 /\ gen.win_size[2] > 0
     /\ meta.shape[2] % gen.win_size[1] = 0
     /\ meta.shape[3] % gen.win_size[2] = 0) =>
        /\ gen.pc = "done"
        /\ Len(gen.yielded) = (meta.shape[2] \div gen.win_size[1])
                              * (meta.shape[3] \div gen.win_size[2])
        /\ Range(gen.yielded) =
              {<<i * gen.win_size[1], j * gen.win_size[2],
                 gen.win_size[1], gen.win_size[2]>> :
                   i \in 0..((meta.shape[2] \div gen.win_size[1]) - 1),
                   j \in 0..((meta.shape[3] \div gen.win_size[2]) - 1)}

\* C11: in iter_vector a feature whose geometry shares no pixel with the
\* raster yields None in place of data and the iteration goes on; no error
\* of that feature reaches the caller.
C11_NoOverlapFeatureYieldsNone ==
    (/\ gen.kind = "vector" /\ gen.pc \in {"suspended", "raised"} /\ gen.c > 0
     /\ ~(gen.filter /\ ~gen.feat.match)
     /\ ~SharesPixel(extent_to_window(meta, gen.feat.geom).window)) =>
        /\ gen.pc = "suspended"
        /\ gen.yielded[Len(gen.yielded)][1] = "None"

\* C12: iter_vector yields one item per feature taken from the layer, in
\* order, whatever the filter: a feature the filter rejects yields the
\* placeholder (None, or (None, None) with properties) and is not skipped,
\* and a generator that has ended has yielded as many items as the layer
\* has features.
C12_OneItemPerFeature ==
    (gen.kind = "vector" /\ gen.pc \in {"suspended", "done"}) =>
        /\ Len(gen.yielded) = gen.c
        /\ gen.pc = "done" => gen.c = gen.nfeat
        /\ (gen.pc = "suspended" /\ gen.filter /\ ~gen.feat.match) =>
              gen.yielded[gen.c] =
                  IF gen.properties THEN <<"None", "None">> ELSE <<"None">>

\* The second feature of a layer was rejected by the filter after the first
\* one was read, with properties requested.
C12_Witness ==
    /\ gen.kind = "vector" /\ gen.pc = "suspended" /\ gen.c = 2
    /\ gen.filter /\ ~gen.feat.match /\ gen.properties
    /\ gen.yielded[1][1] = "data"
    /\ Len(gen.yielded) = 2

\* The rational q is the integer n (a division by zero gives no number).
RatIs(q, n) == q.d # 0 /\ q.n = n * q.d

\* C13: for every invertible geo transform, rotation and shear included,
\* proj_to_raster(raster_to_proj(x, y)) = (x, y).
C13_RoundTrip ==
    (pc = "returned" /\ call.op = "proj_to_raster") =>
        /\ RatIs(ret.value[1], call.from[1])
        /\ RatIs(ret.value[2], call.from[2])

\* C14: get_data rejects with an error every component index outside
\* 1..num_components (zero, negative, too large) and reads no component.
C14_ComponentOutOfRangeRejected ==
    (/\ pc = "returned" /\ call.op = "whole" /\ call.component # <<>>
     /\ call.component[1] \notin 1..Len(files.dfile_tiles)) =>
        ret.status \in {"ValueError", "IndexError"}

\* C15: iter_window with a win_size or stride holding a value <= 0, or with
\* a stride and no win_size, raises ValueError at its first step, before any
\* window is read or yielded.
C15_InvalidArgumentsNoRead ==
    (/\ gen.kind = "window" /\ gen.pc # "created"
     /\ \/ gen.args[1] # <<>> /\ \E i \in 1..2 : gen.args[1][i] <= 0
        \/ gen.args[2] # <<>> /\ \E i \in 1..2 : gen.args[2][i] <= 0
        \/ gen.args[1] = <<>> /\ gen.args[2] # <<>>) =>
        /\ gen.pc = "raised" /\ gen.err = "ValueError"
        /\ gen.yielded = <<>>
        /\ call = NoCall /\ ret = Raised("none")

\* iter_window was given a valid win_size and a stride with a zero in it.
C15_Witness ==
    /\ gen.kind = "window" /\ gen.pc = "raised" /\ gen.err = "ValueError"
    /\ gen.args[1] # <<>> /\ gen.args[1][1] > 0 /\ gen.args[1][2] > 0
    /\ gen.args[2] # <<>> /\ gen.args[2][1] = 0 /\ gen.args[2][2] > 0

\* The raster object a request asks to read: the image or one component.
ReqObject(c) ==
    IF c.component = <<>> THEN files.dfile ELSE files.dfile_tiles[c.component[1]]

\* C16: plane i of the block returned holds the data of the i-th requested
\* band, for any requested list; without a band list the block holds the
\* bands 1..band_count in ascending order.
C16_BandOrder ==
    (/\ pc = "returned" /\ call.op = "whole" /\ ret.status = "ok"
     /\ call.component = <<>> \/ call.component[1] \in 1..Len(files.dfile_tiles)) =>
        /\ ret.data.shape[1] = ReqBandCount(call)
        /\ \A i \in 1..ret.data.shape[1], r \in 1..ret.data.shape[2],
              c \in 1..ret.data.shape[3] :
              ret.data.a[i][r][c] =
                  PixelValue(ReqObject(call), ReqBand(call, i), c - 1, r - 1)

\* The bands were requested in descending order and the two planes differ.
C16_Witness ==
    /\ pc = "returned" /\ call.op = "whole" /\ ret.status = "ok"
    /\ call.bands = <<2, 1>>
    /\ ret.data.a[1] # ret.data.a[2]

\* C17: write_img_replace_this with an array of exactly the image's shape
\* and dtype writes every band 1..band_count to the file and returns with
\* the handle open read-only.
C17_ReplaceWritesAllBands ==
    (/\ pc = "returned" /\ call.op = "write_img_replace_this"
     /\ call.shape = <<meta.shape[1], meta.shape[3], meta.shape[2]>>
     /\ call.dtype_ok) =>
        /\ ret.status = "ok"
        /\ fobj.written = 1..meta.shape[1]
        /\ fobj.mode = "GA_ReadOnly"

\* C18: the first window iter_window emits starts, on each axis, at
\* floor((dimension mod tile size) / 2) for adjoining tiling and at
\* floor(((dimension - tile size) mod stride) / 2) for strided tiling.
C18_StartOffset ==
    (gen.kind = "window" /\ Len(gen.yielded) >= 1) =>
        \A i \in 1..2 :
            gen.yielded[1][i] =
                IF gen.args[2] = <<>>
                THEN (meta.shape[i + 1] % gen.yielded[1][i + 2]) \div 2
                ELSE ((meta.shape[i + 1] - gen.args[1][i]) % gen.args[2][i]) \div 2

\* C18 as stated: the first window starts at floor((dimension mod step) / 2),
\* the step being the tile size (adjoining) or the stride (strided).
C18_StartOffsetModStep ==
    (gen.kind = "window" /\ Len(gen.yielded) >= 1) =>
        \A i \in 1..2 :
            gen.yielded[1][i] =
                IF gen.args[2] = <<>>
                THEN (meta.shape[i + 1] % gen.yielded[1][i + 2]) \div 2
                ELSE (meta.shape[i + 1] % gen.args[2][i]) \div 2

\* A strided tiling whose first window starts off the left edge, and where the
\* two formulas of the starting offset differ.
C18_Witness ==
    /\ gen.kind = "window" /\ Len(gen.yielded) >= 1
    /\ gen.args[2] # <<>>
    /\ gen.yielded[1][1] > 0
    /\ (meta.shape[2] % gen.args[2][1]) \div 2 # gen.yielded[1][1]

\* C19: with a component selected and no window given, get_data reads the
\* full grid of that component: the window, its limits and the (zero) pad
\* widths come from the component's own width and height.
C19_ComponentGrid ==
    (/\ pc = "returned" /\ call.op = "whole" /\ call.component # <<>>
     /\ call.component[1] \in 1..Len(files.dfile_tiles)
     /\ \A i \in 1..Len(call.bands) : call.bands[i] \in 1..NumBands) =>
        /\ ret.status = "ok"
        /\ ret.read = <<0, 0, ReqObject(call).RasterXSize,
                        ReqObject(call).RasterYSize>>
        /\ ret.pads = <<0, 0, 0, 0>>
        /\ ret.data.shape = <<ReqBandCount(call), ReqObject(call).RasterYSize,
                              ReqObject(call).RasterXSize>>

\* The geometry with envelope env burns the raster pixel (x, y).
PixelBurned(env, x, y, all_touched) ==
    Burned(env, raster_to_proj(meta.geo_transform, x, y)[1],
           raster_to_proj(meta.geo_transform, x, y)[2],
           meta.resolution[1], meta.resolution[2], 0, 0, all_touched)

\* C20: in a masked read with a geometry the burn raster starts at the
\* top-left pixel of the window read (buffered and clipped), so that the
\* mask element (r, c) is about the raster pixel of the data element (r, c):
\* an element read from the raster is excluded exactly when the geometry
\* does not burn its pixel.
C20_MaskAlignedWithData ==
    (pc = "returned" /\ call.op = "geom" /\ call.mask /\ ret.status = "ok") =>
        LET w == BufferedWindow(call)
            top == CutTop(w)
            left == CutLeft(w)
            rows == InsideHeight(w)
            cols == InsideWidth(w)
            x0 == Max2(w[1], 0)
            y0 == Max2(w[2], 0)
        IN \A r \in (top + 1)..(top + rows), c \in (left + 1)..(left + cols) :
              ret.mask.a[1][r][c] =
                  ~PixelBurned(call.geom, x0 + c - left - 1, y0 + r - top - 1,
                               call.mask_all_touched)

\* C21: a request (explicit window or geometry envelope) whose window lies
\* outside the raster, but overlaps it once the buffer is added on every
\* side, is not rejected and returns a padded block of the buffered size.
C21_BufferBeforeBoundsCheck ==
    (/\ pc = "returned" /\ call.op \in {"window", "geom"}
     /\ ~SharesPixel(ReqWindow(call))
     /\ SharesPixel(BufferedWindow(call))) =>
        /\ ret.status = "ok"
        /\ ret.data.shape = <<ReqBandCount(call), BufferedWindow(call)[4],
                              BufferedWindow(call)[3]>>

\* The step of iter_window on axis i (1 for x, 2 for y): the stride, or the
\* tile size when no stride was given.
IterStep(i) ==
    IF gen.args[2] = <<>> THEN gen.yielded[1][i + 2] ELSE gen.args[2][i]

\* C22: iter_window emits its windows in raster-major order, x fastest: from
\* one window to the next either y stays and x grows by one step, or x goes
\* back to the starting x offset and y grows by one step; y never decreases
\* and no offset pair is emitted twice.
C22_RasterMajorOrder ==
    gen.kind = "window" =>
        /\ \A k \in 1..(Len(gen.yielded) - 1) :
              \/ /\ gen.yielded[k + 1][2] = gen.yielded[k][2]
                 /\ gen.yielded[k + 1][1] = gen.yielded[k][1] + IterStep(1)
              \/ /\ gen.yielded[k + 1][1] = gen.yielded[1][1]
                 /\ gen.yielded[k + 1][2] = gen.yielded[k][2] + IterStep(2)
        /\ \A k \in 1..Len(gen.yielded), l \in 1..Len(gen.yielded) :
              /\ k < l => gen.yielded[k][2] <= gen.yielded[l][2]
              /\ k # l => <<gen.yielded[k][1], gen.yielded[k][2]>> #
                          <<gen.yielded[l][1], gen.yielded[l][2]>>

\* A tiling has stepped along a row and then gone back to its starting x
\* offset on the next row.
C22_Witness ==
    /\ gen.kind = "window" /\ Len(gen.yielded) >= 3
    /\ gen.yielded[2][2] = gen.yielded[1][2]
    /\ gen.yielded[3][2] > gen.yielded[2][2]
    /\ gen.yielded[3][1] = gen.yielded[1][1]

\* The windows emitted so far are no more than the offset pairs between the
\* starting offsets and the raster's width and height, none has a y offset
\* beyond the height, and a generator that ended by itself has a y offset
\* beyond the height.
WindowsBounded ==
    (gen.kind = "window" /\ Len(gen.yielded) >= 1) =>
        /\ Len(gen.yielded) <=
              ((meta.shape[2] - gen.yielded[1][1]) \div IterStep(1) + 1)
              * ((meta.shape[3] - gen.yielded[1][2]) \div IterStep(2) + 1)
        /\ \A k \in 1..Len(gen.yielded) : gen.yielded[k][2] <= meta.shape[3]
        /\ gen.pc = "done" => gen.yoff > meta.shape[3]

\* C23: with positive win_size and stride iter_window emits finitely many
\* windows and then ends, stopping once the y offset exceeds the raster
\* height: the number of windows stays bounded, and every next() on a
\* suspended generator either emits one more window or ends the generator.
C23_FinitelyManyWindows ==
    /\ []WindowsBounded
    /\ [][(gen.kind = "window" /\ gen.pc = "suspended") =>
             \/ /\ gen'.pc = "suspended"
                /\ Len(gen'.yielded) = Len(gen.yielded) + 1
             \/ gen'.pc \in {"done", "raised"}]_vars

\* A strided tiling has ended by itself after several windows.
C23_Witness ==
    /\ gen.kind = "window" /\ gen.pc = "done"
    /\ gen.args[2] # <<>>
    /\ Len(gen.yielded) >= 4
    /\ gen.yoff > meta.shape[3]

\* C29: every window iter_window emits with a tile no larger than the
\* raster lies fully inside the raster.
C29_WindowsInsideRaster ==
    (/\ gen.kind = "window" /\ Len(gen.yielded) >= 1
     /\ gen.yielded[1][3] <= meta.shape[2]
     /\ gen.yielded[1][4] <= meta.shape[3]) =>
        \A k \in 1..Len(gen.yielded) : FullyInside(gen.yielded[k])

\* The frame a generator ends in when it is the only one and is advanced
\* until it ends.
RECURSIVE RunAlone(_, _)
RunAlone(g, zeroOk) ==
    IF g.pc \in {"done", "raised"} THEN g
    ELSE RunAlone(FrameNext(<<g>>, 1, zeroOk), zeroOk)

IsPrefix(s, t) ==
    Len(s) <= Len(t) /\ \A k \in 1..Len(s) : s[k] = t[k]

C26_NonzeroMask ==
    (pc = "returned" /\ call.op = "window" /\ call.mask /\ ret.status = "ok") =>
        LET w == BufferedWindow(call)
            top == CutTop(w)
            left == CutLeft(w)
            rows == InsideHeight(w)
            cols == InsideWidth(w)
            x0 == Max2(w[1], 0)
            y0 == Max2(w[2], 0)
        IN \A b \in 1..ret.data.shape[1], r \in (top + 1)..(top + rows),
              c \in (left + 1)..(left + cols) :
              ret.mask.a[b][r][c] =
                  (PixelValue(files.dfile, ReqBand(call, b), x0 + c - left - 1,
                              y0 + r - top - 1) = 0)

\* A masked window read holds, inside the raster, a zero pixel that is
\* excluded and a nonzero pixel that is kept.
C26_Witness ==
    /\ pc = "returned" /\ call.op = "window" /\ call.mask /\ ret.status = "ok"
    /\ FullyInside(call.window) /\ call.buffer = <<>>
    /\ \E r \in 1..ret.data.shape[2], c \in 1..ret.data.shape[3] :
          ret.data.a[1][r][c] = 0 /\ ret.mask.a[1][r][c]
    /\ \E r \in 1..ret.data.shape[2], c \in 1..ret.data.shape[3] :
          ret.data.a[1][r][c] # 0 /\ ~ret.mask.a[1][r][c]

\* C27: iter_vector called with a list of property names raises ValueError
\* when a requested name is not an attribute of the feature being processed.
C27_MissingPropertyRaises ==
    (/\ gen.kind = "vector" /\ gen.pc \in {"suspended", "raised"} /\ gen.c > 0
     /\ gen.names # <<>>
     /\ \E i \in 1..Len(gen.names) : gen.names[i] \notin gen.feat.keys) =>
        /\ gen.pc = "raised"
        /\ gen.err = "ValueError"

\* C28: with return_location the upper_left_pixel returned is the raster
\* pixel coordinate of the first (top-left) element of the returned block,
\* also for buffered windows and windows padded on the left or top.
C28_UpperLeftPixel ==
    WindowReturned =>
        ret.location = <<BufferedWindow(call)[1], BufferedWindow(call)[2]>>

\* C30: create_geo_image, and write_img_like_this through it, leaves the
\* caller's 3-D array as it was passed: the replacement of NaN and infinite
\* values by the no-data value is seen in the file written only.
C30_CallerArrayUnchanged ==
    (/\ pc = "returned"
     /\ call.op \in {"create_geo_image", "write_img_like_this"}
     /\ call.ndim = 3 /\ ret.status = "ok") =>
        call.data_np_array = call.given

\* C9: iter_components yields one block per component, for the components
\* 1..num_components in that order, and ends without raising.
C9_OneBlockPerComponent ==
    (gen.kind = "components" /\ GenEnded) =>
        /\ gen.pc = "done"
        /\ gen.yielded = [i \in 1..Len(files.dfile_tiles) |-> <<i>>]

\* C10: iter_window_random(win_size, no_chips=N) yields exactly N blocks and
\* then ends: never more than N, and N when it has ended.
C10_ExactlyNChips ==
    (/\ gen.kind = "random" /\ gen.pc \in {"suspended", "done"}) =>
        /\ Len(gen.yielded) <= gen.no_chips
        /\ gen.pc = "done" => Len(gen.yielded) = gen.no_chips

====
